---------------------------- MODULE Spec2Model ----------------------------
(***************************************************************************)
(* Ledger and withdrawal-approval engine of the Telegram BNB bot           *)
(* (src/bot.py).  The state is the two SQLite tables (users, withdrawals), *)
(* the in-memory map pending_rejects, the per-user context.user_data flag  *)
(* awaiting_wallet and the wall clock.  Every handler is one action: the   *)
(* code between two awaits runs without interruption on the event loop,    *)
(* and every handler does all of its reads and writes of the ledger inside *)
(* one such stretch.                                                       *)
(*                                                                         *)
(* The columns username and last_bot_message_id, and with them the chat    *)
(* bookkeeping of safe_send_and_store and the read-only views (balance,    *)
(* referral link, main menu, admin statistics), are not part of the ledger *)
(* and are left out.                                                       *)
(*                                                                         *)
(* Amounts are counted in units of 0.001 BNB; Decimal arithmetic and the   *)
(* str()/Decimal() round trip through the TEXT column are exact.  Time is  *)
(* counted in ticks of 12 hours.  A column holding SQL NULL / Python None  *)
(* holds NULL (integers) or NoWallet (strings).  Strings are sequences of  *)
(* one-character strings.                                                  *)
(***************************************************************************)
EXTENDS Integers, Sequences, FiniteSets, Bags, TLC

\* ------------------------------------------------------------------ bounds
NumUsers == 2          \* Telegram ids 1..NumUsers can talk to the bot
MaxTime == 2           \* the clock stops ticking here
MaxBalance == 4        \* no credit is modelled that would exceed this balance
MaxReferrals == 1      \* no referral credit is modelled beyond this count
MaxWithdrawals == 2    \* no withdrawal row is created beyond this many
MaxInFlight == 2       \* no more handlers than this are suspended at once

\* --------------------------------------------------------- configuration
\* Environment-configured values (os.getenv); the model runs the bot with a
\* configuration in which a few credits reach the withdrawal minimum.
ADMIN_ID == 1          \* operator's Telegram id
REF_BONUS == 2         \* referral bonus, in units
DAILY_BONUS == 1       \* daily bonus, in units
MIN_WITHDRAW == 3      \* minimum withdrawal, in units
COOLDOWN == 2          \* timedelta(hours=24), in ticks of 12 h
ADDR_LEN == 42         \* len(addr) == 42
\* The import of eth_utils succeeded: checksum validation is available.
ETH_UTILS_AVAILABLE == TRUE

NULL == -1
NoWallet == <<>>

UserIds == 1..NumUsers
\* The accounts that have joined the channel CHANNEL_USERNAME, and go on to
\* use the wallet dialogue; the other accounts only get as far as the
\* refusals.
ChannelMembers == {2}
Times == 0..MaxTime

\* ------------------------------------------------------------ characters
Rep(c, n) == [i \in 1..n |-> c]

LowerOf == [c \in {"A", "B", "G", "X"} |->
              CASE c = "A" -> "a" [] c = "B" -> "b" [] c = "G" -> "g" [] c = "X" -> "x"]
UpperOf == [c \in {"a", "b", "g", "x"} |->
              CASE c = "a" -> "A" [] c = "b" -> "B" [] c = "g" -> "G" [] c = "x" -> "X"]

\* str.lower / str.upper, character by character
lower_char(c) == IF c \in DOMAIN LowerOf THEN LowerOf[c] ELSE c
upper_char(c) == IF c \in DOMAIN UpperOf THEN UpperOf[c] ELSE c
lower(s) == [i \in 1..Len(s) |-> lower_char(s[i])]
upper(s) == [i \in 1..Len(s) |-> upper_char(s[i])]

HexDigits == {"0", "1", "a", "b", "A", "B"}

RECURSIVE lstrip(_)
lstrip(s) == IF s # <<>> /\ Head(s) = " " THEN lstrip(Tail(s)) ELSE s
RECURSIVE rstrip(_)
rstrip(s) == IF s # <<>> /\ s[Len(s)] = " " THEN rstrip(SubSeq(s, 1, Len(s) - 1)) ELSE s
\* strip gone wrong: drops every blank, inner ones too
strip_all_blanks(s) == SelectSeq(s, LAMBDA c : c # " ")
\* str.strip
strip(s) == rstrip(lstrip(s))

startswith0x(s) == Len(s) >= 2 /\ s[1] = "0" /\ s[2] = "x"


\* ------------------------------------------------------ address validator
\* eth_utils.to_checksum_address raises ValueError unless the text is "0x"
\* followed by 40 hex digits.
is_hex_address(addr) ==
    /\ startswith0x(addr)
    /\ Len(addr) = ADDR_LEN
    /\ \A i \in 3..Len(addr) : addr[i] \in HexDigits

\* Stand-in for the Keccak nibble test of EIP-55 (eth_utils): which positions
\* of the hex body carry an upper-case letter in the checksum form.
checksum_upper_at(i) == i % 2 = 1

\* eth_utils.to_checksum_address, for a text is_hex_address accepts
to_checksum_address(addr) ==
    [i \in 1..Len(addr) |->
        IF i <= 2 THEN addr[i]
        ELSE IF checksum_upper_at(i) THEN upper_char(addr[i]) ELSE lower_char(addr[i])]

\* is_valid_bsc_address (the isinstance test is always passed: the caller
\* hands over message text).  eth is ETH_UTILS_AVAILABLE.
is_valid_bsc_address(addr0, eth) ==
    LET addr == strip(addr0) IN
    IF ~(startswith0x(addr) /\ Len(addr) = ADDR_LEN) THEN FALSE
    ELSE IF eth
         THEN IF is_hex_address(addr)
              THEN LET checksum == to_checksum_address(addr) IN
                   IF addr = checksum \/ lower(addr) = addr \/ upper(addr) = addr
                   THEN TRUE ELSE TRUE
              ELSE FALSE
         ELSE TRUE

\* ------------------------------------------------------------ input texts
LowerAddr == <<"0", "x">> \o Rep("a", ADDR_LEN - 2)
ChecksumAddr == to_checksum_address(LowerAddr)
\* ChecksumAddr with the case of its first hex digit flipped
FlippedAddr == [ChecksumAddr EXCEPT ![3] = lower_char(@)]
NonHexAddr == <<"0", "x">> \o Rep("g", ADDR_LEN - 2)
ShortAddr == <<"0", "x">> \o Rep("a", ADDR_LEN - 3)

ReasonA == <<"n", "o">>
ReasonB == <<"n", "o", " ", "b", "a", "l">>

\* Texts of the messages users send.  Telegram delivers message text without
\* leading or trailing white space.
MessageTexts == {ReasonA, ReasonB, FlippedAddr, NonHexAddr, ShortAddr}

\* ------------------------------------------------------------------ state
VARIABLES
    users,              \* table users: telegram_id -> row
    withdrawals,        \* table withdrawals: sequence of rows, id = index
    pending_rejects,    \* pending_rejects.get(ADMIN_ID): a withdrawal id or NULL
    awaiting_wallet,    \* context.user_data["awaiting_wallet"], per user
    now,                \* now_utc()
    reply,              \* the last handler run: who, with what, and its answer
    sent,               \* messages the last handler sent with bot.send_message
    credited,           \* history: the sum of the amounts add_balance added, per user
    inflight            \* callback handlers suspended at "await q.answer()"

vars == <<users, withdrawals, pending_rejects, awaiting_wallet, now, reply, sent,
          credited, inflight>>

\* A telegram_id with no row in users.
AbsentRow ==
    [exists |-> FALSE, balance |-> 0, referrals |-> 0, referred_by |-> NULL,
     wallet |-> NoWallet, last_bonus |-> NULL, joined_channel |-> 0,
     subscribed_yt |-> 0]

\* The row INSERT OR IGNORE creates (column defaults of db_init).
NewRow(referred_by) ==
    [exists |-> TRUE, balance |-> 0, referrals |-> 0, referred_by |-> referred_by,
     wallet |-> NoWallet, last_bonus |-> NULL, joined_channel |-> 0,
     subscribed_yt |-> 0]

\* ------------------------------------------------------------- DB helpers
get_user_row(U, tid) == U[tid]

\* ensure_user gone wrong: INSERT OR REPLACE instead of INSERT OR IGNORE
ensure_user_or_replace(U, tid, referred_by) ==
    [U EXCEPT ![tid] = NewRow(referred_by)]

ensure_user(U, tid, referred_by) ==
    IF U[tid].exists THEN U ELSE [U EXCEPT ![tid] = NewRow(referred_by)]

\* add_balance gone wrong: subtracts the amount
add_balance_subtracts(U, tid, amount) ==
    LET U1 == ensure_user(U, tid, NULL) IN
    [U1 EXCEPT ![tid].balance = get_user_row(U1, tid).balance - amount]

\* add_balance gone wrong: writes the amount over the balance it did not read
add_balance_overwrites(U, tid, amount) ==
    LET U1 == ensure_user(U, tid, NULL) IN
    [U1 EXCEPT ![tid].balance = amount]

add_balance(U, tid, amount) ==
    LET U1 == ensure_user(U, tid, NULL) IN
    [U1 EXCEPT ![tid].balance = get_user_row(U1, tid).balance + amount]

\* set_balance gone wrong: adds the amount to the balance instead of storing it
set_balance_adds(U, tid, amount) ==
    LET U1 == ensure_user(U, tid, NULL) IN [U1 EXCEPT ![tid].balance = @ + amount]

set_balance(U, tid, amount) ==
    LET U1 == ensure_user(U, tid, NULL) IN [U1 EXCEPT ![tid].balance = amount]

\* inc_referrals gone wrong: counts the referral twice
inc_referrals_twice(U, tid) ==
    IF U[tid].exists THEN [U EXCEPT ![tid].referrals = @ + 2] ELSE U

\* UPDATE ... WHERE telegram_id=? touches no row when there is none
inc_referrals(U, tid) ==
    IF U[tid].exists THEN [U EXCEPT ![tid].referrals = @ + 1] ELSE U

set_wallet(U, tid, addr) ==
    LET U1 == ensure_user(U, tid, NULL) IN [U1 EXCEPT ![tid].wallet = addr]

\* record_last_bonus gone wrong: the UPDATE is never committed
record_last_bonus_not_stored(U, tid, dt) == U

record_last_bonus(U, tid, dt) ==
    LET U1 == ensure_user(U, tid, NULL) IN [U1 EXCEPT ![tid].last_bonus = dt]

set_joined_flag(U, tid, val) ==
    LET U1 == ensure_user(U, tid, NULL) IN [U1 EXCEPT ![tid].joined_channel = val]

set_subscribed_flag(U, tid, val) ==
    LET U1 == ensure_user(U, tid, NULL) IN [U1 EXCEPT ![tid].subscribed_yt = val]

\* create_withdrawal gone wrong: records the minimum, not the amount handed over
create_withdrawal_minimum(W, tid, amount, wallet) ==
    Append(W, [telegram_id |-> tid, amount |-> MIN_WITHDRAW, wallet |-> wallet,
               status |-> "pending"])

\* returns the table after the INSERT; lastrowid is its length
create_withdrawal(W, tid, amount, wallet) ==
    Append(W, [telegram_id |-> tid, amount |-> amount, wallet |-> wallet,
               status |-> "pending"])

\* whether get_withdrawal(wid) finds a row
has_withdrawal(W, wid) == wid \in 1..Len(W)
get_withdrawal(W, wid) == W[wid]

\* mark_withdrawal gone wrong: the UPDATE also clears the amount
mark_withdrawal_clears_amount(W, wid, status) ==
    IF has_withdrawal(W, wid) THEN [W EXCEPT ![wid].status = status, ![wid].amount = 0]
    ELSE W

\* mark_withdrawal gone wrong: an UPDATE without its WHERE id = ?
mark_withdrawal_every_row(W, wid, status) ==
    IF has_withdrawal(W, wid) THEN [i \in 1..Len(W) |-> [W[i] EXCEPT !.status = status]]
    ELSE W

mark_withdrawal(W, wid, status) ==
    IF has_withdrawal(W, wid) THEN [W EXCEPT ![wid].status = status] ELSE W

\* user_is_verified gone wrong: any user who has a row counts as verified
user_is_verified_any_row(U, tid) == get_user_row(U, tid).exists

user_is_verified(U, tid) ==
    LET row == get_user_row(U, tid) IN
    IF ~row.exists THEN FALSE
    ELSE row.joined_channel = 1 /\ row.subscribed_yt = 1

\* ------------------------------------------------------- replies, messages
Reply(handler, actor, action, arg, text, result) ==
    [handler |-> handler, actor |-> actor, action |-> action, arg |-> arg,
     text |-> text, result |-> result]

Msg(to, kind, wid, amount, text) ==
    [to |-> to, kind |-> kind, wid |-> wid, amount |-> amount, text |-> text]

Init ==
    /\ users = [u \in UserIds |-> AbsentRow]
    /\ withdrawals = <<>>
    /\ pending_rejects = NULL
    /\ awaiting_wallet = [u \in UserIds |-> FALSE]
    /\ now = 0
    /\ reply = Reply("none", NULL, "", NULL, <<>>, "none")
    /\ sent = {}
    /\ credited = [u \in UserIds |-> 0]
    /\ inflight = EmptyBag

\* ---------------------------------------------------------------- handlers
\* parse_ref_arg yields an int or None; the referrer ids tried are those of
\* the accounts.
RefArgs == UserIds \cup {NULL}

\* "if ref_id and ref_id != tid": None and 0 are falsy
credits_referrer(tid, ref_id) == ref_id # NULL /\ ref_id # 0 /\ ref_id # tid

\* /start [ref<id>]
start_cmd(tid, ref_id) ==
    LET U1 == ensure_user(users, tid, ref_id)
        credit == credits_referrer(tid, ref_id)
        U2 == IF credit
              THEN inc_referrals(add_balance(ensure_user(U1, ref_id, NULL),
                                             ref_id, REF_BONUS), ref_id)
              ELSE U1
        row == get_user_row(U2, tid)
        verified == row.joined_channel = 1 /\ row.subscribed_yt = 1
    IN
    /\ credit => /\ users[ref_id].balance + REF_BONUS <= MaxBalance
                 /\ users[ref_id].referrals < MaxReferrals
    /\ users' = U2
    /\ sent' = (IF credit THEN {Msg(ref_id, "referral_earned", NULL, REF_BONUS, <<>>)}
                ELSE {})
               \cup {Msg(ADMIN_ID, "new_user_started", NULL, tid, <<>>)}
    /\ reply' = Reply("start_cmd", tid, "", ref_id, <<>>,
                      IF verified THEN "main_menu" ELSE "verify_prompt")
    /\ credited' = (IF credit THEN [credited EXCEPT ![ref_id] = @ + REF_BONUS]
                    ELSE credited)
    /\ UNCHANGED <<withdrawals, pending_rejects, awaiting_wallet, now>>

\* What get_chat_member answers for tid: a member status, or it raises.
MemberStatuses(tid) ==
    IF tid \in ChannelMembers
    THEN {"member", "administrator", "creator", "error"}
    ELSE {"left", "kicked", "error"}

\* check_both_callback gone wrong: records the self-confirmed subscription
\* before the membership check has answered
check_both_callback_subscribes_first(tid, status) ==
    /\ IF status \in {"member", "administrator", "creator"}
       THEN /\ users' = set_subscribed_flag(set_joined_flag(users, tid, 1), tid, 1)
            /\ reply' = Reply("check_both_callback", tid, "", NULL, <<>>,
                              "verification_complete")
       ELSE /\ users' = set_subscribed_flag(users, tid, 1)
            /\ reply' = Reply("check_both_callback", tid, "", NULL, <<>>,
                              IF status = "error" THEN "check_error" ELSE "not_member")
    /\ sent' = {}
    /\ UNCHANGED <<withdrawals, pending_rejects, awaiting_wallet, now, credited>>

\* callback check_both
check_both_callback(tid, status) ==
    /\ IF status \in {"member", "administrator", "creator"}
       THEN /\ users' = set_subscribed_flag(set_joined_flag(users, tid, 1), tid, 1)
            /\ reply' = Reply("check_both_callback", tid, "", NULL, <<>>,
                              "verification_complete")
       ELSE /\ users' = users
            /\ reply' = Reply("check_both_callback", tid, "", NULL, <<>>,
                              IF status = "error" THEN "check_error" ELSE "not_member")
    /\ sent' = {}
    /\ UNCHANGED <<withdrawals, pending_rejects, awaiting_wallet, now, credited>>

\* cooldown_active gone wrong: still refuses at exactly 24 hours
cooldown_active_inclusive(last, t) == last # NULL /\ t - last <= COOLDOWN

\* "if last: diff = now_utc() - last; if diff < timedelta(hours=24)"
cooldown_active(last, t) == last # NULL /\ t - last < COOLDOWN

\* /claim, callback claim_daily
claim_daily_action(tid) ==
    /\ IF ~user_is_verified(users, tid)
       THEN /\ users' = users
            /\ credited' = credited
            /\ reply' = Reply("claim_daily_action", tid, "", NULL, <<>>, "not_verified")
       ELSE LET U1 == ensure_user(users, tid, NULL)
                last == get_user_row(U1, tid).last_bonus
            IN
            IF cooldown_active(last, now)
            THEN /\ users' = U1
                 /\ credited' = credited
                 /\ reply' = Reply("claim_daily_action", tid, "", NULL, <<>>,
                                   "cooldown_active")
            ELSE /\ users[tid].balance + DAILY_BONUS <= MaxBalance
                 /\ users' = record_last_bonus(add_balance(U1, tid, DAILY_BONUS),
                                                  tid, now)
                 /\ credited' = [credited EXCEPT ![tid] = @ + DAILY_BONUS]
                 /\ reply' = Reply("claim_daily_action", tid, "", NULL, <<>>,
                                   "bonus_granted")
    /\ sent' = {}
    /\ UNCHANGED <<withdrawals, pending_rejects, awaiting_wallet, now>>

\* /setwallet, callback set_wallet
set_wallet_prompt(tid) ==
    /\ users' = users
    /\ awaiting_wallet' = [awaiting_wallet EXCEPT ![tid] = TRUE]
    /\ reply' = Reply("set_wallet_prompt", tid, "", NULL, <<>>, "send_address")
    /\ sent' = {}
    /\ UNCHANGED <<withdrawals, pending_rejects, now, credited>>

\* message_handler gone wrong: a rejection sets the owner's balance to zero,
\* as an approval does
message_handler_reject_zeroes(tid, text0) ==
    LET text == strip(text0) IN
    IF tid = ADMIN_ID /\ pending_rejects # NULL
    THEN \* the operator is entering a rejection reason
         LET wid == pending_rejects
             reason == strip(text)
         IN
         /\ pending_rejects' = NULL
         /\ IF ~has_withdrawal(withdrawals, wid)
            THEN /\ withdrawals' = withdrawals
                 /\ sent' = {}
                 /\ reply' = Reply("message_handler", tid, "", wid, text0, "not_found")
            ELSE /\ withdrawals' = mark_withdrawal(withdrawals, wid, "rejected")
                 /\ sent' = {Msg(get_withdrawal(withdrawals, wid).telegram_id,
                                 "withdrawal_rejected", wid, NULL, reason)}
                 /\ reply' = Reply("message_handler", tid, "", wid, text0,
                                   "rejection_processed")
         /\ users' = (IF has_withdrawal(withdrawals, wid)
                      THEN set_balance(users, get_withdrawal(withdrawals, wid).telegram_id, 0)
                      ELSE users)
         /\ UNCHANGED <<awaiting_wallet, now, credited>>
    ELSE IF awaiting_wallet[tid]
    THEN \* the user is entering a wallet address
         /\ awaiting_wallet' = [awaiting_wallet EXCEPT ![tid] = FALSE]
         /\ IF is_valid_bsc_address(text, ETH_UTILS_AVAILABLE)
            THEN /\ users' = set_wallet(users, tid, text)
                 /\ reply' = Reply("message_handler", tid, "", NULL, <<>>, "wallet_saved")
            ELSE /\ users' = users
                 /\ reply' = Reply("message_handler", tid, "", NULL, <<>>,
                                   "invalid_address")
         /\ sent' = {}
         /\ UNCHANGED <<withdrawals, pending_rejects, now, credited>>
    ELSE /\ users' = users
         /\ reply' = Reply("message_handler", tid, "", NULL, <<>>,
                           IF user_is_verified(users, tid) THEN "use_menu"
                           ELSE "not_verified")
         /\ sent' = {}
         /\ UNCHANGED <<withdrawals, pending_rejects, awaiting_wallet, now, credited>>

\* a text message that is not a command; text0 is update.message.text
message_handler(tid, text0) ==
    LET text == strip(text0) IN
    IF tid = ADMIN_ID /\ pending_rejects # NULL
    THEN \* the operator is entering a rejection reason
         LET wid == pending_rejects
             reason == strip(text)
         IN
         /\ pending_rejects' = NULL
         /\ IF ~has_withdrawal(withdrawals, wid)
            THEN /\ withdrawals' = withdrawals
                 /\ sent' = {}
                 /\ reply' = Reply("message_handler", tid, "", wid, text0, "not_found")
            ELSE /\ withdrawals' = mark_withdrawal(withdrawals, wid, "rejected")
                 /\ sent' = {Msg(get_withdrawal(withdrawals, wid).telegram_id,
                                 "withdrawal_rejected", wid, NULL, reason)}
                 /\ reply' = Reply("message_handler", tid, "", wid, text0,
                                   "rejection_processed")
         /\ users' = users
         /\ UNCHANGED <<awaiting_wallet, now, credited>>
    ELSE IF awaiting_wallet[tid]
    THEN \* the user is entering a wallet address
         /\ awaiting_wallet' = [awaiting_wallet EXCEPT ![tid] = FALSE]
         /\ IF is_valid_bsc_address(text, ETH_UTILS_AVAILABLE)
            THEN /\ users' = set_wallet(users, tid, text)
                 /\ reply' = Reply("message_handler", tid, "", NULL, <<>>, "wallet_saved")
            ELSE /\ users' = users
                 /\ reply' = Reply("message_handler", tid, "", NULL, <<>>,
                                   "invalid_address")
         /\ sent' = {}
         /\ UNCHANGED <<withdrawals, pending_rejects, now, credited>>
    ELSE /\ users' = users
         /\ reply' = Reply("message_handler", tid, "", NULL, <<>>,
                           IF user_is_verified(users, tid) THEN "use_menu"
                           ELSE "not_verified")
         /\ sent' = {}
         /\ UNCHANGED <<withdrawals, pending_rejects, awaiting_wallet, now, credited>>

\* withdraw_check gone wrong: looks for the wallet before the balance
withdraw_check_wallet_first(U, tid) ==
    IF ~user_is_verified(U, tid) THEN "not_verified"
    ELSE LET row == get_user_row(ensure_user(U, tid, NULL), tid) IN
         IF row.wallet = NoWallet THEN "no_wallet"
         ELSE IF row.balance < MIN_WITHDRAW THEN "below_minimum"
         ELSE "ok"

\* The three checks of withdraw_action, in the order the code makes them;
\* "ok" when none refuses.
withdraw_check(U, tid) ==
    IF ~user_is_verified(U, tid) THEN "not_verified"
    ELSE LET row == get_user_row(ensure_user(U, tid, NULL), tid) IN
         IF row.balance < MIN_WITHDRAW THEN "below_minimum"
         ELSE IF row.wallet = NoWallet THEN "no_wallet"
         ELSE "ok"

\* /withdraw, callback withdraw.  admin_send_ok: whether the send of the
\* request to the operator succeeds.
withdraw_action(tid, admin_send_ok) ==
    LET check == withdraw_check(users, tid) IN
    /\ IF check # "ok"
       THEN /\ users' = (IF check = "not_verified" THEN users
                         ELSE ensure_user(users, tid, NULL))
            /\ withdrawals' = withdrawals
            /\ sent' = {}
            /\ reply' = Reply("withdraw_action", tid, "", NULL, <<>>, check)
       ELSE LET U1 == ensure_user(users, tid, NULL)
                row == get_user_row(U1, tid)
                balance == row.balance
                wallet == row.wallet
            IN
            /\ Len(withdrawals) < MaxWithdrawals
            /\ withdrawals' = create_withdrawal(withdrawals, tid, balance, wallet)
            /\ users' = U1
            /\ IF admin_send_ok
               THEN /\ sent' = {Msg(ADMIN_ID, "withdraw_request",
                                    Len(withdrawals'), balance, wallet)}
                    /\ reply' = Reply("withdraw_action", tid, "",
                                      Len(withdrawals'), <<>>, "submitted")
               ELSE /\ sent' = {}
                    /\ reply' = Reply("withdraw_action", tid, "",
                                      Len(withdrawals'), <<>>, "submit_failed")
    /\ UNCHANGED <<pending_rejects, awaiting_wallet, now, credited>>

CallbackActions == {"approve", "reject"}
\* withdrawal ids a callback can carry: the rows' ids and one that has no row
WidArgs == 1..(MaxWithdrawals + 1)

\* approve_reject_callback gone wrong: without "if user.id != ADMIN_ID"
approve_reject_callback_any_actor(operator, action, wid) ==
    IF ~has_withdrawal(withdrawals, wid)
    THEN /\ reply' = Reply("approve_reject_callback", operator, action, wid, <<>>,
                           "not_found")
         /\ sent' = {}
         /\ UNCHANGED <<users, withdrawals, pending_rejects, awaiting_wallet, now, credited>>
    ELSE IF get_withdrawal(withdrawals, wid).status # "pending"
    THEN /\ reply' = Reply("approve_reject_callback", operator, action, wid, <<>>,
                           "already_terminal")
         /\ sent' = {}
         /\ UNCHANGED <<users, withdrawals, pending_rejects, awaiting_wallet, now, credited>>
    ELSE LET w == get_withdrawal(withdrawals, wid) IN
         IF action = "approve"
         THEN /\ withdrawals' = mark_withdrawal(withdrawals, wid, "approved")
              /\ users' = set_balance(users, w.telegram_id, 0)
              /\ sent' = {Msg(w.telegram_id, "withdrawal_approved", wid, w.amount, <<>>)}
              /\ reply' = Reply("approve_reject_callback", operator, action, wid, <<>>,
                                "approved")
              /\ UNCHANGED <<pending_rejects, awaiting_wallet, now, credited>>
         ELSE /\ pending_rejects' = wid
              /\ sent' = {}
              /\ reply' = Reply("approve_reject_callback", operator, action, wid, <<>>,
                                "type_reason")
              /\ UNCHANGED <<users, withdrawals, awaiting_wallet, now, credited>>

\* callback approve:<wid> / reject:<wid>
approve_reject_callback(operator, action, wid) ==
    IF operator # ADMIN_ID
    THEN /\ reply' = Reply("approve_reject_callback", operator, action, wid, <<>>,
                           "unauthorized")
         /\ sent' = {}
         /\ UNCHANGED <<users, withdrawals, pending_rejects, awaiting_wallet, now, credited>>
    ELSE IF ~has_withdrawal(withdrawals, wid)
    THEN /\ reply' = Reply("approve_reject_callback", operator, action, wid, <<>>,
                           "not_found")
         /\ sent' = {}
         /\ UNCHANGED <<users, withdrawals, pending_rejects, awaiting_wallet, now, credited>>
    ELSE IF get_withdrawal(withdrawals, wid).status # "pending"
    THEN /\ reply' = Reply("approve_reject_callback", operator, action, wid, <<>>,
                           "already_terminal")
         /\ sent' = {}
         /\ UNCHANGED <<users, withdrawals, pending_rejects, awaiting_wallet, now, credited>>
    ELSE LET w == get_withdrawal(withdrawals, wid) IN
         IF action = "approve"
         THEN /\ withdrawals' = mark_withdrawal(withdrawals, wid, "approved")
              /\ users' = set_balance(users, w.telegram_id, 0)
              /\ sent' = {Msg(w.telegram_id, "withdrawal_approved", wid, w.amount, <<>>)}
              /\ reply' = Reply("approve_reject_callback", operator, action, wid, <<>>,
                                "approved")
              /\ UNCHANGED <<pending_rejects, awaiting_wallet, now, credited>>
         ELSE /\ pending_rejects' = wid
              /\ sent' = {}
              /\ reply' = Reply("approve_reject_callback", operator, action, wid, <<>>,
                                "type_reason")
              /\ UNCHANGED <<users, withdrawals, awaiting_wallet, now, credited>>

\* the wall clock advances
Tick ==
    /\ now < MaxTime
    /\ now' = now + 1
    /\ reply' = Reply("none", NULL, "", NULL, <<>>, "none")
    /\ sent' = {}
    /\ UNCHANGED <<users, withdrawals, pending_rejects, awaiting_wallet, credited, inflight>>

StartCmd ==
    /\ \E tid \in UserIds, ref_id \in RefArgs : start_cmd(tid, ref_id)
    /\ UNCHANGED inflight
CheckBoth ==
    /\ \E tid \in UserIds : \E status \in MemberStatuses(tid) :
          check_both_callback(tid, status)
    /\ UNCHANGED inflight
ClaimDaily ==
    /\ \E tid \in UserIds : claim_daily_action(tid)
    /\ UNCHANGED inflight
SetWalletPrompt ==
    /\ \E tid \in ChannelMembers : set_wallet_prompt(tid)
    /\ UNCHANGED inflight
MessageIn ==
    /\ \E tid \in UserIds, text \in MessageTexts : message_handler(tid, text)
    /\ UNCHANGED inflight
Withdraw ==
    /\ \E tid \in UserIds, ok \in BOOLEAN : withdraw_action(tid, ok)
    /\ UNCHANGED inflight
ApproveReject ==
    /\ \E operator \in UserIds, action \in CallbackActions, wid \in WidArgs :
          approve_reject_callback(operator, action, wid)
    /\ UNCHANGED inflight

Next ==
    \/ StartCmd
    \/ CheckBoth
    \/ ClaimDaily
    \/ SetWalletPrompt
    \/ MessageIn
    \/ Withdraw
    \/ ApproveReject
    \/ Tick

Spec == Init /\ [][Next]_vars

\* ------------------------------------------- handlers suspended at an await
\* A callback handler starts with "await q.answer()": the event loop may run
\* other handlers before it goes on.  From there to its next await the
\* handler runs without a break, and all its reads and writes of the ledger
\* lie in that stretch.

\* the callback queries followed through their suspension: the claims of
\* the users who can be verified and the operator's approve clicks (a reject
\* click writes pending_rejects alone; Spec follows it)
CallbackQueries ==
    [handler : {"claim_daily_action"}, tid : ChannelMembers, action : {""},
     wid : {NULL}]
    \cup [handler : {"approve_reject_callback"}, tid : {ADMIN_ID},
          action : {"approve"}, wid : 1..MaxWithdrawals]

\* a callback query arrives and its handler reaches "await q.answer()"
AwaitAnswer ==
    /\ BagCardinality(inflight) < MaxInFlight
    /\ \E q \in CallbackQueries : inflight' = inflight (+) SetToBag({q})
    /\ reply' = Reply("q.answer", NULL, "", NULL, <<>>, "suspended")
    /\ sent' = {}
    /\ UNCHANGED <<users, withdrawals, pending_rejects, awaiting_wallet, now, credited>>

\* claim_daily_action goes on after "await q.answer()"
ResumeClaimDaily ==
    \E c \in BagToSet(inflight) :
        /\ c.handler = "claim_daily_action"
        /\ claim_daily_action(c.tid)
        /\ inflight' = inflight (-) SetToBag({c})

\* approve_reject_callback goes on after "await q.answer()"
ResumeApproveReject ==
    \E c \in BagToSet(inflight) :
        /\ c.handler = "approve_reject_callback"
        /\ approve_reject_callback(c.tid, c.action, c.wid)
        /\ inflight' = inflight (-) SetToBag({c})

NextAsync ==
    \/ StartCmd
    \/ CheckBoth
    \/ SetWalletPrompt
    \/ MessageIn
    \/ Withdraw
    \/ Tick
    \/ AwaitAnswer
    \/ ResumeClaimDaily
    \/ ResumeApproveReject

SpecAsync == Init /\ [][NextAsync]_vars

\* ----------------------------------------------------------------- claims
Verified(u) ==
    users[u].exists /\ users[u].joined_channel = 1 /\ users[u].subscribed_yt = 1

Wids == 1..Len(withdrawals)

\* C1: once a withdrawal's status is approved or rejected, no step changes it.
C1_TerminalStatusIsFinal ==
    [][\A i \in Wids :
          withdrawals[i].status # "pending"
          => withdrawals'[i].status = withdrawals[i].status]_vars

\* C2: a /start by B credits a referrer only when it creates B's row, and
\* never B itself.
C2_CreditOnlyOnOnboarding ==
    [][\A b \in UserIds :
          (/\ reply'.handler = "start_cmd"
           /\ reply'.actor = b
           /\ \E m \in sent' : m.kind = "referral_earned")
          => ~users[b].exists /\ reply'.arg # b]_vars

\* C3: a claim of a verified user inside 24 hours of lastBonusAt answers
\* cooldown_active and leaves balance and lastBonusAt alone; any other claim
\* of a verified user adds DAILY_BONUS and sets lastBonusAt to now.
C3_DailyBonusCooldown ==
    [][\A u \in UserIds :
          (reply'.handler = "claim_daily_action" /\ reply'.actor = u /\ Verified(u))
          => IF users[u].last_bonus # NULL /\ now - users[u].last_bonus < COOLDOWN
             THEN /\ reply'.result = "cooldown_active"
                  /\ users'[u].balance = users[u].balance
                  /\ users'[u].last_bonus = users[u].last_bonus
             ELSE /\ reply'.result = "bonus_granted"
                  /\ users'[u].balance = users[u].balance + DAILY_BONUS
                  /\ users'[u].last_bonus = now]_vars

\* A second grant, made exactly 24 hours after the first.
C3_Witness ==
    \E u \in UserIds :
        /\ reply.handler = "claim_daily_action" /\ reply.actor = u
        /\ reply.result = "bonus_granted"
        /\ users[u].last_bonus = now /\ now = COOLDOWN
        /\ users[u].referrals = 0 /\ withdrawals = <<>>
        /\ users[u].balance = 2 * DAILY_BONUS

\* C4: no balance is ever negative.
C4_BalanceNonNegative == \A u \in UserIds : users[u].balance >= 0

\* A balance credited, requested and zeroed by an approval.
C4_Witness ==
    \E i \in Wids :
        /\ withdrawals[i].status = "approved"
        /\ users[withdrawals[i].telegram_id].balance = 0
        /\ \E u \in UserIds : users[u].balance > 0

\* C5: a withdrawal is refused with not_verified, else below_minimum, else
\* no_wallet, checked in this order, and a refusal adds no withdrawal row and
\* changes no user.
C5_RefusalWritesNothing ==
    [][\A u \in UserIds :
          (reply'.handler = "withdraw_action" /\ reply'.actor = u)
          => /\ (reply'.result = "not_verified") <=> ~Verified(u)
             /\ (reply'.result = "below_minimum")
                   <=> (Verified(u) /\ users[u].balance < MIN_WITHDRAW)
             /\ (reply'.result = "no_wallet")
                   <=> (/\ Verified(u) /\ users[u].balance >= MIN_WITHDRAW
                        /\ users[u].wallet = NoWallet)
             /\ reply'.result \in {"not_verified", "below_minimum", "no_wallet"}
                   => users' = users /\ withdrawals' = withdrawals]_vars

\* Refused for the balance, although no wallet is set either.
C5_Witness ==
    /\ reply.handler = "withdraw_action"
    /\ reply.result = "below_minimum"
    /\ users[reply.actor].wallet = NoWallet
    /\ users[reply.actor].balance > 0

\* the acceptance rule of the address validator as the specification states it
spec_accepts(addr) ==
    /\ is_hex_address(addr)
    /\ \/ addr = to_checksum_address(addr)
       \/ lower(addr) = addr
       \/ upper(addr) = addr

\* C6: with checksum validation available, no stored payout address is a
\* mixed-case address that differs from its checksum form.
C6_StoredAddressPassesChecksum ==
    ETH_UTILS_AVAILABLE
    => \A u \in UserIds : users[u].wallet = NoWallet \/ spec_accepts(users[u].wallet)

\* C7: a withdrawal that is not refused appends exactly one row: pending, the
\* requester's balance and wallet of that moment; and changes no user.
C7_RequestSnapshots ==
    [][\A u \in UserIds :
          (/\ reply'.handler = "withdraw_action" /\ reply'.actor = u
           /\ Verified(u) /\ users[u].balance >= MIN_WITHDRAW
           /\ users[u].wallet # NoWallet)
          => /\ Len(withdrawals') = Len(withdrawals) + 1
             /\ SubSeq(withdrawals', 1, Len(withdrawals)) = withdrawals
             /\ withdrawals'[Len(withdrawals')] =
                   [telegram_id |-> u, amount |-> users[u].balance,
                    wallet |-> users[u].wallet, status |-> "pending"]
             /\ users' = users]_vars

\* A request for more than the minimum has just been recorded.
C7_Witness ==
    /\ reply.handler = "withdraw_action"
    /\ reply.result = "submitted"
    /\ reply.arg = Len(withdrawals)
    /\ withdrawals[reply.arg].status = "pending"
    /\ withdrawals[reply.arg].amount > MIN_WITHDRAW
    /\ users[reply.actor].balance = withdrawals[reply.arg].amount

\* C8: the operator's approve of a pending request makes it approved and its
\* owner's balance 0, and changes no other balance.
C8_ApproveZeroesOwner ==
    [][\A i \in Wids :
          (/\ reply'.handler = "approve_reject_callback"
           /\ reply'.actor = ADMIN_ID /\ reply'.action = "approve" /\ reply'.arg = i
           /\ withdrawals[i].status = "pending")
          => /\ withdrawals'[i].status = "approved"
             /\ users'[withdrawals[i].telegram_id].balance = 0
             /\ \A o \in UserIds \ {withdrawals[i].telegram_id} :
                   users'[o].balance = users[o].balance]_vars

\* An approval has just run while another user holds a balance.
C8_Witness ==
    /\ reply.handler = "approve_reject_callback"
    /\ reply.result = "approved"
    /\ withdrawals[reply.arg].status = "approved"
    /\ users[withdrawals[reply.arg].telegram_id].balance = 0
    /\ \E o \in UserIds \ {withdrawals[reply.arg].telegram_id} : users[o].balance > 0

\* C9: the /start that creates B with a referrer A # B adds REF_BONUS to A's
\* balance and 1 to A's referrals, and changes neither B's balance and
\* referrals nor the balance of anyone but A.
C9_ReferralCredit ==
    [][\A b \in UserIds, a \in UserIds :
          (/\ reply'.handler = "start_cmd" /\ reply'.actor = b /\ reply'.arg = a
           /\ a # b /\ ~users[b].exists)
          => /\ users'[a].balance = users[a].balance + REF_BONUS
             /\ users'[a].referrals = users[a].referrals + 1
             /\ users'[b].balance = users[b].balance
             /\ users'[b].referrals = users[b].referrals
             /\ \A o \in UserIds \ {a} : users'[o].balance = users[o].balance]_vars

\* B has just been onboarded by a referrer who already had a balance.
C9_Witness ==
    /\ reply.handler = "start_cmd"
    /\ reply.arg \in UserIds \ {reply.actor}
    /\ users[reply.actor].referred_by = reply.arg
    /\ users[reply.actor].balance = 0
    /\ users[reply.arg].referrals = 1
    /\ users[reply.arg].balance = REF_BONUS + DAILY_BONUS

RECURSIVE ApprovedSum(_, _)
ApprovedSum(u, n) ==
    IF n = 0 THEN 0
    ELSE ApprovedSum(u, n - 1)
         + (IF withdrawals[n].telegram_id = u /\ withdrawals[n].status = "approved"
            THEN withdrawals[n].amount ELSE 0)

\* C11: for every user, the amounts of the user's approved requests add up
\* to no more than everything that was ever credited to the user.
C11_ApprovedWithinCredited ==
    \A u \in UserIds : ApprovedSum(u, Len(withdrawals)) <= credited[u]

\* C12: the step that approves a pending request takes exactly the request's
\* amount off the owner's balance.
C12_ApproveDebitsAmount ==
    [][\A i \in Wids :
          (withdrawals[i].status = "pending" /\ withdrawals'[i].status = "approved")
          => users'[withdrawals[i].telegram_id].balance
               = users[withdrawals[i].telegram_id].balance - withdrawals[i].amount]_vars

\* C13: no user has two requests that are pending at the same time.
C13_OnePendingPerUser ==
    \A i, j \in Wids :
        (/\ i # j
         /\ withdrawals[i].telegram_id = withdrawals[j].telegram_id
         /\ withdrawals[i].status = "pending")
        => withdrawals[j].status # "pending"

\* C14: the operator's reject click on a pending request only records the
\* request's id and changes no row; a request turns rejected only in the
\* step of the operator's next text message, which rejects the recorded
\* request, that one alone, and clears the record.
C14_TwoPhaseReject ==
    [][/\ \A i \in Wids :
            (/\ reply'.handler = "approve_reject_callback"
             /\ reply'.actor = ADMIN_ID
             /\ reply'.action = "reject"
             /\ reply'.arg = i
             /\ withdrawals[i].status = "pending")
            => /\ pending_rejects' = i
               /\ withdrawals' = withdrawals
               /\ users' = users
       /\ \A i \in Wids :
            (withdrawals'[i].status = "rejected" /\ withdrawals[i].status # "rejected")
            => /\ reply'.handler = "message_handler"
               /\ reply'.actor = ADMIN_ID
               /\ pending_rejects = i
       /\ (/\ reply'.handler = "message_handler"
           /\ reply'.actor = ADMIN_ID
           /\ pending_rejects \in Wids)
          => /\ withdrawals' = [withdrawals EXCEPT ![pending_rejects].status = "rejected"]
             /\ pending_rejects' = NULL]_vars

\* After reject clicks on request 1 and then on request 2, the reason has
\* rejected request 2 and request 1 is still pending.
C14_Witness ==
    /\ reply.handler = "message_handler"
    /\ reply.result = "rejection_processed"
    /\ reply.arg = 2
    /\ Len(withdrawals) = 2
    /\ withdrawals[1].status = "pending"
    /\ withdrawals[2].status = "rejected"
    /\ pending_rejects = NULL

\* C15: an approve or reject click, or a text message, of an actor who is
\* not the operator, and an approve or reject click on an id that has no
\* row, change no withdrawal, no balance and not the recorded reject intent.
C15_OnlyOperatorActs ==
    [][(\/ /\ reply'.handler \in {"approve_reject_callback", "message_handler"}
           /\ reply'.actor \in UserIds \ {ADMIN_ID}
        \/ /\ reply'.handler = "approve_reject_callback"
           /\ reply'.arg \notin Wids)
       => /\ withdrawals' = withdrawals
          /\ \A u \in UserIds : users'[u].balance = users[u].balance
          /\ pending_rejects' = pending_rejects]_vars

\* Somebody else has clicked approve on a pending request of a user with
\* money, while the operator's reject intent was waiting for its reason.
C15_Witness ==
    /\ reply.handler = "approve_reject_callback"
    /\ reply.actor # ADMIN_ID
    /\ reply.action = "approve"
    /\ reply.result = "unauthorized"
    /\ reply.arg \in Wids
    /\ withdrawals[reply.arg].status = "pending"
    /\ users[withdrawals[reply.arg].telegram_id].balance > 0
    /\ pending_rejects # NULL

\* C16: whenever /withdraw has created a request row, the user is answered
\* that the request was submitted, whether or not the operator's
\* notification could be sent.
C16_CreatedIsReportedSubmitted ==
    (/\ reply.handler = "withdraw_action"
     /\ reply.arg \in Wids
     /\ withdrawals[reply.arg].status = "pending")
    => reply.result = "submitted"

\* C19: no user's referred_by is the user's own id.
C19_NoSelfReferral ==
    \A u \in UserIds : users[u].exists => users[u].referred_by # u

\* C20: a user row that exists stays, with the referred_by it was created
\* with; a /start or a /withdraw of a user who already has a row (both
\* upsert the row and write nothing else of it) leaves every field of the row
\* as it was.
C20_UpsertKeepsRow ==
    [][/\ \A u \in UserIds :
            users[u].exists
            => /\ users'[u].exists
               /\ users'[u].referred_by = users[u].referred_by
       /\ \A b \in UserIds :
            (/\ reply'.handler \in {"start_cmd", "withdraw_action"}
             /\ reply'.actor = b
             /\ users[b].exists)
            => users'[b] = users[b]]_vars

\* A user who has a wallet, a balance, a referral and a claim behind them
\* has sent /start with a referrer id that is not the recorded one.
C20_Witness ==
    /\ reply.handler = "start_cmd"
    /\ reply.arg \in UserIds \ {reply.actor}
    /\ users[reply.actor].referred_by # reply.arg
    /\ users[reply.actor].wallet # NoWallet
    /\ users[reply.actor].balance > 0
    /\ users[reply.actor].referrals > 0
    /\ users[reply.actor].last_bonus # NULL
    /\ Verified(reply.actor)

\* the calls of handler h by actor a that are suspended at their await
SuspendedCalls(h, a) == {c \in BagToSet(inflight) : c.handler = h /\ c.tid = a}

\* C17: however the claims of a user interleave at their awaits, the user
\* is granted at most one daily bonus per 24 hours: the daily bonuses the
\* user was ever credited number at most one plus the whole cooldown
\* periods gone by.
C17_OneGrantPerCooldown ==
    \A u \in UserIds :
        credited[u] - REF_BONUS * users[u].referrals
            <= DAILY_BONUS * (1 + (now \div COOLDOWN))

\* A claim has just been granted while another claim of the same user,
\* begun before the grant, is still suspended.
C17_Witness ==
    /\ reply.handler = "claim_daily_action"
    /\ reply.result = "bonus_granted"
    /\ users[reply.actor].last_bonus = now
    /\ SuspendedCalls("claim_daily_action", reply.actor) # {}

C21_UnverifiedClaimRefused ==
    [][\A u \in UserIds :
          (reply'.handler = "claim_daily_action" /\ reply'.actor = u /\ ~Verified(u))
          => /\ reply'.result = "not_verified"
             /\ users'[u].exists = users[u].exists
             /\ users'[u].balance = users[u].balance
             /\ users'[u].last_bonus = users[u].last_bonus
             /\ credited'[u] = credited[u]]_vars

\* A user who has a row and a balance, never claimed before and is not
\* verified has claimed and was refused.
C21_Witness ==
    /\ reply.handler = "claim_daily_action"
    /\ reply.result = "not_verified"
    /\ users[reply.actor].exists
    /\ ~Verified(reply.actor)
    /\ users[reply.actor].balance = REF_BONUS
    /\ users[reply.actor].last_bonus = NULL

\* C22: no step removes a request or changes the owner, the amount or the
\* address found under a request's id; a step that creates a request creates
\* one, pending, under the id that follows all ids given out before, and
\* that is the id /withdraw hands on.
C22_RequestImmutable ==
    [][/\ Len(withdrawals') >= Len(withdrawals)
       /\ \A i \in Wids :
            /\ withdrawals'[i].telegram_id = withdrawals[i].telegram_id
            /\ withdrawals'[i].amount = withdrawals[i].amount
            /\ withdrawals'[i].wallet = withdrawals[i].wallet
       /\ Len(withdrawals') > Len(withdrawals)
          => /\ Len(withdrawals') = Len(withdrawals) + 1
             /\ withdrawals'[Len(withdrawals')].status = "pending"
             /\ reply'.handler = "withdraw_action"
             /\ reply'.arg = Len(withdrawals) + 1
             /\ withdrawals'[reply'.arg].telegram_id = reply'.actor]_vars

\* Two requests have been decided, one approved and one rejected, and the
\* approved one still carries its amount although the owner's balance has
\* been set to zero since.
C22_Witness ==
    /\ Len(withdrawals) = 2
    /\ withdrawals[1].status = "approved"
    /\ withdrawals[2].status = "rejected"
    /\ withdrawals[1].amount >= MIN_WITHDRAW
    /\ withdrawals[2].amount >= MIN_WITHDRAW
    /\ users[withdrawals[1].telegram_id].balance < withdrawals[1].amount

\* C23: neither the operator's reject click nor the reason message that
\* completes the rejection changes any user's row or credited total; the
\* reject click changes no request, and the reason changes the status of the
\* one recorded request and nothing else of any request.
C23_RejectTouchesNoUser ==
    [][/\ (reply'.handler = "approve_reject_callback" /\ reply'.result = "type_reason")
          => /\ users' = users
             /\ credited' = credited
             /\ withdrawals' = withdrawals
       /\ (reply'.handler = "message_handler" /\ reply'.result = "rejection_processed")
          => /\ users' = users
             /\ credited' = credited
             /\ withdrawals' = [withdrawals EXCEPT ![reply'.arg].status = "rejected"]]_vars

\* A pending request of a user with a balance, a wallet, a referral and a
\* claim has just been rejected, and another request is still pending.
C23_Witness ==
    /\ reply.handler = "message_handler"
    /\ reply.result = "rejection_processed"
    /\ withdrawals[reply.arg].status = "rejected"
    /\ users[withdrawals[reply.arg].telegram_id].balance = withdrawals[reply.arg].amount
    /\ users[withdrawals[reply.arg].telegram_id].wallet # NoWallet
    /\ users[withdrawals[reply.arg].telegram_id].referrals > 0
    /\ users[withdrawals[reply.arg].telegram_id].last_bonus # NULL
    /\ \E j \in Wids : withdrawals[j].status = "pending"

\* C24: a user whose subscription flag is set has the membership flag set;
\* a membership check that fails or raises changes no row; the flags change
\* only in a check that succeeds, which sets both; and a verified user stays
\* verified.
C24_VerificationMonotonic ==
    [][/\ \A u \in UserIds :
            users'[u].subscribed_yt = 1 => users'[u].joined_channel = 1
       /\ (/\ reply'.handler = "check_both_callback"
           /\ reply'.result \in {"check_error", "not_member"})
          => users' = users
       /\ \A u \in UserIds :
            (\/ users'[u].joined_channel # users[u].joined_channel
             \/ users'[u].subscribed_yt # users[u].subscribed_yt)
            => /\ reply'.handler = "check_both_callback"
               /\ reply'.actor = u
               /\ reply'.result = "verification_complete"
               /\ users'[u].joined_channel = 1
               /\ users'[u].subscribed_yt = 1
       /\ \A u \in UserIds :
            Verified(u) => /\ users'[u].exists
                           /\ users'[u].joined_channel = 1
                           /\ users'[u].subscribed_yt = 1]_vars

\* A verified user has pressed the check button again, the membership check
\* raised, and the user is still verified.
C24_Witness ==
    /\ reply.handler = "check_both_callback"
    /\ reply.result = "check_error"
    /\ Verified(reply.actor)
    /\ \E u \in UserIds \ {reply.actor} : users[u].exists /\ ~Verified(u)

=============================================================================
